---- MODULE Spec2Model ----
(***************************************************************************)
(* SmartResumeFix (src/server.js): the rule-based resume improver, the     *)
(* label-based markup step, and the /api/generate and /download handlers.  *)
(*                                                                         *)
(* A JavaScript string is a sequence of one-character strings; the bullet  *)
(* U+2022 is written "bullet".  A regular expression is modelled by the    *)
(* match the backtracking engine returns: leftmost start, greedy           *)
(* quantifiers longest first, lazy quantifiers shortest first.             *)
(***************************************************************************)
EXTENDS Integers, Sequences, FiniteSets, TLC

(* ------------------------------ characters ----------------------------- *)
LowerChars == <<"a","b","c","d","e","f","g","h","i","j","k","l","m","n","o","p","q","r","s","t","u","v","w","x","y","z">>
UpperChars == <<"A","B","C","D","E","F","G","H","I","J","K","L","M","N","O","P","Q","R","S","T","U","V","W","X","Y","Z">>
LowerSet == {LowerChars[i] : i \in 1..Len(LowerChars)}
UpperSet == {UpperChars[i] : i \in 1..Len(UpperChars)}
AlphaSet == LowerSet \cup UpperSet
DigitSet == {"0", "1", "2", "3", "4", "5", "6", "7", "8", "9"}
\* \s
WsSet == {" ", "\n", "\t", "\r"}
\* [\s:]
WsColonSet == WsSet \cup {":"}
\* [A-Za-z\s]
NameSet == AlphaSet \cup WsSet
\* [a-zA-Z0-9._%+-]
EmailLocalSet == AlphaSet \cup DigitSet \cup {".", "_", "%", "+", "-"}
\* [a-zA-Z0-9.-]
EmailDomainSet == AlphaSet \cup DigitSet \cup {".", "-"}
\* [-.\s]
PhoneSepSet == WsSet \cup {"-", "."}
Bullet == "bullet"

\* Two characters equal under the regular expression flag i, which compares
\* their upper-case forms.
UpperMap == [c \in LowerSet |-> UpperChars[CHOOSE i \in 1..Len(LowerChars) : LowerChars[i] = c]]
ToUpper(c) == IF c \in LowerSet THEN UpperMap[c] ELSE c
EqCI(a, b) == ToUpper(a) = ToUpper(b)

MinOf(S) == CHOOSE x \in S : \A y \in S : x <= y
MaxOf(S) == CHOOSE x \in S : \A y \in S : y <= x

(* ------------------------------- strings ------------------------------- *)
\* String.prototype.trim
RECURSIVE TrimStart(_)
TrimStart(s) == IF s # <<>> /\ Head(s) \in WsSet THEN TrimStart(Tail(s)) ELSE s
RECURSIVE TrimEnd(_)
TrimEnd(s) ==
  IF s # <<>> /\ s[Len(s)] \in WsSet THEN TrimEnd(SubSeq(s, 1, Len(s) - 1)) ELSE s
Trim(s) == TrimStart(TrimEnd(s))

\* Array.prototype.slice(0, n)
Slice0(xs, n) == SubSeq(xs, 1, IF Len(xs) < n THEN Len(xs) ELSE n)

\* Array.prototype.filter, for the two predicates the code uses
RECURSIVE FilterNonEmpty(_)
FilterNonEmpty(xs) ==
  IF xs = <<>> THEN <<>>
  ELSE (IF Len(Head(xs)) > 0 THEN <<Head(xs)>> ELSE <<>>) \o FilterNonEmpty(Tail(xs))

RECURSIVE FilterNonBlank(_)
FilterNonBlank(xs) ==
  IF xs = <<>> THEN <<>>
  ELSE (IF Len(Trim(Head(xs))) > 0 THEN <<Head(xs)>> ELSE <<>>) \o FilterNonBlank(Tail(xs))

\* Array.prototype.map(s => s.trim())
MapTrim(xs) == [i \in 1..Len(xs) |-> Trim(xs[i])]

\* Array.prototype.join
RECURSIVE Join(_, _)
Join(xs, sep) ==
  IF xs = <<>> THEN <<>>
  ELSE IF Len(xs) = 1 THEN xs[1]
  ELSE xs[1] \o sep \o Join(Tail(xs), sep)

\* String.prototype.split on every position of the set cuts, each cut one
\* character wide (the separators of the code are single characters).
RECURSIVE SplitAt(_, _)
SplitAt(s, cuts) ==
  IF cuts = {} THEN <<s>>
  ELSE LET c == MaxOf(cuts)
       IN  SplitAt(SubSeq(s, 1, c - 1), cuts \ {c}) \o <<SubSeq(s, c + 1, Len(s))>>

\* split(/[,;]|\n/)
SplitList(s) == SplitAt(s, {i \in 1..Len(s) : s[i] \in {",", ";", "\n"}})
\* split('\n')
SplitLines(s) == SplitAt(s, {i \in 1..Len(s) : s[i] = "\n"})
\* split(/\n(?=[A-Z])/g): the flag i is absent, so upper case only
SplitBlocks(s) ==
  SplitAt(s, {i \in 1..Len(s) - 1 : s[i] = "\n" /\ s[i + 1] \in UpperSet})

\* String.prototype.startsWith
StartsWith(s, w) == Len(s) >= Len(w) /\ SubSeq(s, 1, Len(w)) = w

(* ------------------------- regular expressions ------------------------- *)
NoMatch == [found |-> FALSE, cap |-> <<>>]
Matched(c) == [found |-> TRUE, cap |-> c]

\* The literal w at position i, case-sensitive / under the flag i.
WordAt(s, i, w) ==
  /\ i + Len(w) - 1 <= Len(s)
  /\ \A j \in 1..Len(w) : s[i + j - 1] = w[j]
WordAtCI(s, i, w) ==
  /\ i + Len(w) - 1 <= Len(s)
  /\ \A j \in 1..Len(w) : EqCI(s[i + j - 1], w[j])

\* String.prototype.includes
Includes(s, w) == \E i \in 1..(Len(s) - Len(w) + 1) : WordAt(s, i, w)

\* The number of characters of the class cls from position i on.
RECURSIVE RunLen(_, _, _)
RunLen(s, i, cls) ==
  IF i <= Len(s) /\ s[i] \in cls THEN 1 + RunLen(s, i + 1, cls) ELSE 0

\* The lookahead (?=\n(?:w1|w2|...|$)) at position q, under the flag i.
StopAt(s, q, stops) ==
  /\ q <= Len(s)
  /\ s[q] = "\n"
  /\ (q = Len(s) \/ \E w \in stops : WordAtCI(s, q + 1, w))

\* /(?:Label|label)[\s:]*([^]*?)(?=\n(?:stops|$))/i : the leftmost label from
\* which the lookahead can still be met, the longest [\s:]* run that leaves
\* it reachable, and the shortest capture up to it.
SectionRegex(s, label, stops) ==
  LET ends(from) == {q \in from..Len(s) : StopAt(s, q, stops)}
      starts == {p \in 1..Len(s) : WordAtCI(s, p, label) /\ ends(p + Len(label)) # {}}
  IN  IF starts = {} THEN NoMatch
      ELSE LET base == MinOf(starts) + Len(label)
               k == MaxOf({j \in 0..RunLen(s, base, WsColonSet) : ends(base + j) # {}})
           IN  Matched(SubSeq(s, base + k, MinOf(ends(base + k)) - 1))

\* /(?:Name|name)[\s:]*([A-Za-z\s]+?)(?:\n|,|$)/ : no flag i.  NameCapEnd is
\* the last position of the shortest capture that starts at c, 0 if none.
NameCapEnd(s, c) ==
  LET ok == {e \in c..(c + RunLen(s, c, NameSet) - 1) :
               e = Len(s) \/ s[e + 1] \in {"\n", ","}}
  IN  IF ok = {} THEN 0 ELSE MinOf(ok)

NameLabels == {<<"N","a","m","e">>, <<"n","a","m","e">>}

NameRegex(s) ==
  LET caps(p) == {j \in 0..RunLen(s, p + 4, WsColonSet) : NameCapEnd(s, p + 4 + j) # 0}
      starts == {p \in 1..Len(s) : (\E w \in NameLabels : WordAt(s, p, w)) /\ caps(p) # {}}
  IN  IF starts = {} THEN NoMatch
      ELSE LET p == MinOf(starts)
               c == p + 4 + MaxOf(caps(p))
           IN  Matched(SubSeq(s, c, NameCapEnd(s, c)))

\* /([a-zA-Z0-9._%+-]+@[a-zA-Z0-9.-]+\.[a-zA-Z]{2,})/ : EmailEnd is the last
\* position of the match that starts at i, 0 if none.
EmailEnd(s, i) ==
  LET r == RunLen(s, i, EmailLocalSet)
      d == i + r + 1
      ns == {n \in 1..(RunLen(s, d, EmailDomainSet) - 1) :
               s[d + n] = "." /\ RunLen(s, d + n + 1, AlphaSet) >= 2}
  IN  IF r >= 1 /\ i + r <= Len(s) /\ s[i + r] = "@" /\ ns # {}
      THEN d + MaxOf(ns) + RunLen(s, d + MaxOf(ns) + 1, AlphaSet)
      ELSE 0

EmailRegex(s) ==
  LET starts == {i \in 1..Len(s) : EmailEnd(s, i) # 0}
  IN  IF starts = {} THEN NoMatch
      ELSE Matched(SubSeq(s, MinOf(starts), EmailEnd(s, MinOf(starts))))

\* /(\+?\d{1,3}[-.\s]?\d{1,4}[-.\s]?\d{1,4}[-.\s]?\d{1,9})/ : the four digit
\* groups and the most digits each takes.
PhoneGroupMax == <<3, 4, 4, 9>>

\* The position after groups g..4 matched from position j, 0 if they cannot
\* be.  A group tries its longest length first and keeps the first one the
\* rest can follow; the separator before the next group is taken if the rest
\* can follow it, and skipped otherwise.
RECURSIVE PhoneTail(_, _, _)
PhoneTail(s, j, g) ==
  LET run == RunLen(s, j, DigitSet)
      d == IF run < PhoneGroupMax[g] THEN run ELSE PhoneGroupMax[g]
      after == [n \in 1..d |->
                  IF g = Len(PhoneGroupMax) THEN j + n
                  ELSE LET viaSep == IF j + n <= Len(s) /\ s[j + n] \in PhoneSepSet
                                     THEN PhoneTail(s, j + n + 1, g + 1) ELSE 0
                       IN  IF viaSep # 0 THEN viaSep ELSE PhoneTail(s, j + n, g + 1)]
      ns == {n \in 1..d : after[n] # 0}
  IN  IF ns = {} THEN 0 ELSE after[MaxOf(ns)]

\* PhoneEnd is the position after the match that starts at i, 0 if none.
PhoneEnd(s, i) ==
  LET withPlus == IF s[i] = "+" THEN PhoneTail(s, i + 1, 1) ELSE 0
  IN  IF withPlus # 0 THEN withPlus ELSE PhoneTail(s, i, 1)

PhoneRegex(s) ==
  LET starts == {i \in 1..Len(s) : PhoneEnd(s, i) # 0}
  IN  IF starts = {} THEN NoMatch
      ELSE Matched(SubSeq(s, MinOf(starts), PhoneEnd(s, MinOf(starts)) - 1))

\* /(?:Objective|objective|Summary|summary)[\s:]*([^]*?)(?=\n)/i
SummaryLabels == {<<"O","b","j","e","c","t","i","v","e">>, <<"S","u","m","m","a","r","y">>}

SummaryRegex(s) ==
  LET ends(from) == {q \in from..Len(s) : s[q] = "\n"}
      after(p) == {p + Len(w) : w \in {w \in SummaryLabels : WordAtCI(s, p, w)}}
      starts == {p \in 1..Len(s) : \E b \in after(p) : ends(b) # {}}
  IN  IF starts = {} THEN NoMatch
      ELSE LET base == CHOOSE b \in after(MinOf(starts)) : TRUE
               k == MaxOf({j \in 0..RunLen(s, base, WsColonSet) : ends(base + j) # {}})
           IN  Matched(SubSeq(s, base + k, MinOf(ends(base + k)) - 1))

(* ----------------------------- improveResume --------------------------- *)
\* .slice(0, 12) of the skills, .slice(0, 3) of the education lines,
\* .slice(0, 5) of the experience blocks, objMatch[1].length > 5
MaxSkills == 12
MaxEducation == 3
MaxExperience == 5
MinObjectiveLen == 5

Applicant == <<"A","p","p","l","i","c","a","n","t">>
BulletSep == <<"\n", Bullet, " ">>

nameMatch(resumeText) == NameRegex(resumeText)
emailMatch(resumeText) == EmailRegex(resumeText)
phoneMatch(resumeText) == PhoneRegex(resumeText)
skillsMatch(resumeText) ==
  SectionRegex(resumeText, <<"S","k","i","l","l","s">>,
               {<<"E","x","p","e","r","i","e","n","c","e">>, <<"E","d","u","c","a","t","i","o","n">>, <<"L","a","n","g","u","a","g","e","s">>, <<"O","b","j","e","c","t","i","v","e">>})
eduMatch(resumeText) ==
  SectionRegex(resumeText, <<"E","d","u","c","a","t","i","o","n">>,
               {<<"S","k","i","l","l","s">>, <<"E","x","p","e","r","i","e","n","c","e">>, <<"L","a","n","g","u","a","g","e","s">>})
expMatch(resumeText) ==
  SectionRegex(resumeText, <<"E","x","p","e","r","i","e","n","c","e">>,
               {<<"E","d","u","c","a","t","i","o","n">>, <<"S","k","i","l","l","s">>, <<"L","a","n","g","u","a","g","e","s">>})
langMatch(resumeText) ==
  SectionRegex(resumeText, <<"L","a","n","g","u","a","g","e","s">>,
               {<<"S","k","i","l","l","s">>, <<"E","x","p","e","r","i","e","n","c","e">>, <<"E","d","u","c","a","t","i","o","n">>})
objMatch(resumeText) == SummaryRegex(resumeText)

ExtractName(resumeText) ==
  LET m == nameMatch(resumeText)
  IN  IF m.found /\ Len(m.cap) > 0 THEN Trim(m.cap) ELSE Applicant

ExtractContact(resumeText) ==
  LET e == emailMatch(resumeText)
      p == phoneMatch(resumeText)
      contact == IF e.found THEN e.cap ELSE <<>>
  IN  IF p.found
      THEN (IF Len(contact) > 0 THEN contact \o <<" ","|"," ">> \o p.cap ELSE p.cap)
      ELSE contact

ExtractSkills(resumeText) ==
  LET m == skillsMatch(resumeText)
      skillsRaw == IF m.found THEN m.cap ELSE <<>>
  IN  Join(Slice0(FilterNonEmpty(MapTrim(SplitList(skillsRaw))), MaxSkills), BulletSep)

ExtractEducation(resumeText) ==
  LET m == eduMatch(resumeText)
      educationRaw == IF m.found THEN m.cap ELSE <<>>
  IN  Join(Slice0(FilterNonBlank(SplitLines(educationRaw)), MaxEducation), BulletSep)

\* The map callback of the experience blocks.
FormatBlock(exp) ==
  LET lines == SplitLines(Trim(exp))
      out == [idx \in 1..Len(lines) |->
                IF idx = 1 /\ Len(lines[idx]) > 0 THEN <<Bullet, " ">> \o lines[idx]
                ELSE IF StartsWith(lines[idx], <<Bullet>>) THEN lines[idx]
                ELSE <<" "," ","-"," ">> \o lines[idx]]
  IN  Join(out, <<"\n">>)

ExtractExperience(resumeText) ==
  LET m == expMatch(resumeText)
      experienceRaw == IF m.found THEN m.cap ELSE <<>>
      blocks == Slice0(FilterNonBlank(SplitBlocks(experienceRaw)), MaxExperience)
  IN  Join([i \in 1..Len(blocks) |-> FormatBlock(blocks[i])], <<"\n">>)

ExtractLanguages(resumeText) ==
  LET m == langMatch(resumeText)
      languagesRaw == IF m.found THEN m.cap ELSE <<>>
  IN  Join(FilterNonEmpty(MapTrim(SplitList(languagesRaw))), <<","," ">>)

ExtractSummary(resumeText, targetRole) ==
  LET m == objMatch(resumeText)
      generated == <<"D","e","d","i","c","a","t","e","d"," ","p","r","o","f","e","s","s","i","o","n","a","l"," ","w","i","t","h"," ","s","t","r","o","n","g"," ","e","x","p","e","r","t","i","s","e"," ","i","n"," ">>
                   \o (IF Len(targetRole) > 0 THEN targetRole ELSE <<"m","u","l","t","i","p","l","e"," ","a","r","e","a","s">>)
                   \o <<".">>
      summary == IF m.found /\ Len(m.cap) > MinObjectiveLen THEN Trim(m.cap) ELSE generated
  IN  IF ~Includes(summary, <<"r","o","l","e">>) /\ Len(targetRole) > 0
      THEN summary \o <<" ","S","e","e","k","i","n","g"," ">> \o targetRole
           \o <<" ","r","o","l","e"," ","t","o"," ","a","p","p","l","y"," ","t","e","c","h","n","i","c","a","l"," ","s","k","i","l","l","s"," ","a","n","d"," ","c","o","n","t","r","i","b","u","t","e"," ","t","o"," ","o","r","g","a","n","i","z","a","t","i","o","n","a","l"," ","g","r","o","w","t","h",".">>
      ELSE summary

\* The local variables of improveResume before the resume is built.
ExtractFields(resumeText, targetRole) ==
  [name |-> ExtractName(resumeText),
   contact |-> ExtractContact(resumeText),
   summary |-> ExtractSummary(resumeText, targetRole),
   skills |-> ExtractSkills(resumeText),
   experience |-> ExtractExperience(resumeText),
   education |-> ExtractEducation(resumeText),
   languages |-> ExtractLanguages(resumeText)]

\* One line of the built resume, absent when the value is empty.
LabelLine(label, value) ==
  IF Len(value) > 0 THEN label \o <<":"," ">> \o value \o <<"\n">> ELSE <<>>

\* Faulty variant of BuildResume: the NAME line carries the name as extracted.
BuildResumeNoDefault(f) ==
  <<"N","A","M","E",":"," ">> \o f.name \o <<"\n">>
  \o LabelLine(<<"C","O","N","T","A","C","T">>, f.contact)
  \o <<"P","R","O","F","E","S","S","I","O","N","A","L"," ","S","U","M","M","A","R","Y",":"," ">> \o f.summary \o <<"\n">>
  \o LabelLine(<<"S","K","I","L","L","S">>, f.skills)
  \o LabelLine(<<"W","O","R","K"," ","E","X","P","E","R","I","E","N","C","E">>, f.experience)
  \o LabelLine(<<"E","D","U","C","A","T","I","O","N">>, f.education)
  \o LabelLine(<<"L","A","N","G","U","A","G","E","S">>, f.languages)

BuildResume(f) ==
  <<"N","A","M","E",":"," ">> \o (IF Len(f.name) > 0 THEN f.name ELSE Applicant) \o <<"\n">>
  \o LabelLine(<<"C","O","N","T","A","C","T">>, f.contact)
  \o <<"P","R","O","F","E","S","S","I","O","N","A","L"," ","S","U","M","M","A","R","Y",":"," ">> \o f.summary \o <<"\n">>
  \o LabelLine(<<"S","K","I","L","L","S">>, f.skills)
  \o LabelLine(<<"W","O","R","K"," ","E","X","P","E","R","I","E","N","C","E">>, f.experience)
  \o LabelLine(<<"E","D","U","C","A","T","I","O","N">>, f.education)
  \o LabelLine(<<"L","A","N","G","U","A","G","E","S">>, f.languages)

EmptyTextMessage == <<"R","e","s","u","m","e"," ","t","e","x","t"," ","c","a","n","n","o","t"," ","b","e"," ","e","m","p","t","y">>
Returned(v) == [threw |-> FALSE, message |-> <<>>, value |-> v]
Threw(m) == [threw |-> TRUE, message |-> m, value |-> <<>>]

improveResume(resumeText, targetRole) ==
  IF Len(resumeText) = 0 \/ Len(Trim(resumeText)) = 0
  THEN Threw(EmptyTextMessage)
  ELSE Returned(BuildResume(ExtractFields(resumeText, targetRole)))

(* -------------------------- renderHtmlFromAiText ----------------------- *)
\* new RegExp(`${label}:[\\s\\S]*?(?=\\n[A-Z]+:|$)`, 'i'), then the label is
\* removed from the match and the rest trimmed.  Under the flag i the class
\* [A-Z] also takes lower-case letters.
getSection(aiText, label) ==
  LET key == label \o <<":">>
      starts == {p \in 1..Len(aiText) : WordAtCI(aiText, p, key)}
      ahead(q) == \/ q = Len(aiText) + 1
                  \/ /\ aiText[q] = "\n"
                     /\ LET r == RunLen(aiText, q + 1, AlphaSet)
                        IN  r >= 1 /\ q + 1 + r <= Len(aiText) /\ aiText[q + 1 + r] = ":"
  IN  IF starts = {} THEN <<>>
      ELSE LET from == MinOf(starts) + Len(key)
               q == MinOf({j \in from..(Len(aiText) + 1) : ahead(j)})
           IN  Trim(SubSeq(aiText, from, q - 1))

\* The template of the page, block by block.
renderHtmlFromAiText(aiText) ==
  LET name == IF Len(getSection(aiText, <<"N","A","M","E">>)) > 0
              THEN getSection(aiText, <<"N","A","M","E">>) ELSE Applicant
  IN  [title |-> name \o <<" ","-"," ","R","e","s","u","m","e">>,
       h1 |-> name,
       contact |-> getSection(aiText, <<"C","O","N","T","A","C","T">>),
       summary |-> getSection(aiText, <<"S","U","M","M","A","R","Y">>),
       experience |-> getSection(aiText, <<"E","X","P","E","R","I","E","N","C","E">>),
       education |-> getSection(aiText, <<"E","D","U","C","A","T","I","O","N">>),
       skills |-> getSection(aiText, <<"S","K","I","L","L","S">>)]

(* ------------------------------- the state ----------------------------- *)
VARIABLES
  \* one call of the text pipeline (server.js lines 265-268)
  resumeText, targetRole, stage, result, html,
  \* the process: its environment, the files, the requests being handled
  hostUrlSet, smtpSet, files, pc, body, status, ran, mail, resp, dl

textVars == <<resumeText, targetRole, stage, result, html>>
serverVars == <<hostUrlSet, smtpSet, files, pc, body, status, ran, mail, resp, dl>>
vars == <<resumeText, targetRole, stage, result, html,
          hostUrlSet, smtpSet, files, pc, body, status, ran, mail, resp, dl>>

(* --------------------------- the resume texts -------------------------- *)
\* The pasted text is any selection of these lines, in this order, with or
\* without its last line break.
NameLines ==
  {<<>>, <<"N","a","m","e",":"," ","J","a","n","e"," ","D","o","e","\n">>, <<"N","A","M","E",":"," ","J","a","n","e"," ","D","o","e","\n">>, <<"N","a","m","e",":"," ","\n">>}
ContactLines ==
  {<<>>, <<"E","m","a","i","l",":"," ","j","a","n","e","@","x",".","c","o","m","\n">>, <<"j","a","n","e","@","x",".","c","o","m"," ","+","9","1"," ","9","8","7","6","5"," ","4","3","2","1","0","\n">>}
SummaryLines ==
  {<<>>, <<"O","b","j","e","c","t","i","v","e",":"," ","B","u","i","l","d"," ","s","k","i","l","l","s",":"," ","f","a","s","t","\n">>, <<"S","u","m","m","a","r","y",":"," ","L","e","a","d","\n">>}
SkillLines ==
  {<<>>, <<"S","k","i","l","l","s",":"," ","P","y","t","h","o","n",","," ","G","o",";"," ","S","Q","L","\n">>, <<"S","k","i","l","l","s",":"," ","a",",","b",",","c",",","d",",","e",",","f",",","g",",","h",",","i",",","j",",","k",",","l",",","m",",","n","\n">>}
ExperienceLines ==
  {<<>>, <<"E","x","p","e","r","i","e","n","c","e","\n","E","n","g","i","n","e","e","r"," ","a","t"," ","A","c","m","e","\n","b","u","i","l","t"," ","s","y","s","t","e","m","s","\n","M","a","n","a","g","e","r","\n">>}
EducationLines ==
  {<<>>, <<"E","d","u","c","a","t","i","o","n","\n","B","S","c"," ","C","S","\n","M","S","c","\n","P","h","D","\n","D","i","p","l","o","m","a","\n">>}
LanguageLines ==
  {<<>>, <<"L","a","n","g","u","a","g","e","s",":"," ","E","n","g","l","i","s","h",","," ","H","i","n","d","i","\n">>}
BlankText == <<" "," "," ">>

WithoutLastBreak(s) ==
  IF Len(s) > 0 /\ s[Len(s)] = "\n" THEN SubSeq(s, 1, Len(s) - 1) ELSE s

ResumeTexts ==
  LET full == {n \o c \o o \o s \o x \o e \o l :
                 n \in NameLines, c \in ContactLines, o \in SummaryLines,
                 s \in SkillLines, x \in ExperienceLines, e \in EducationLines,
                 l \in LanguageLines}
  IN  full \cup {WithoutLastBreak(t) : t \in full} \cup {BlankText}

TargetRoles == {<<>>, <<"B","a","c","k","e","n","d"," ","E","n","g","i","n","e","e","r">>}

NoHtml == [title |-> <<>>, h1 |-> <<>>, contact |-> <<>>, summary |-> <<>>,
           experience |-> <<>>, education |-> <<>>, skills |-> <<>>]

(* --------------------------- the text pipeline ------------------------- *)
InitText ==
  /\ resumeText \in ResumeTexts
  /\ targetRole \in TargetRoles
  /\ stage = "input"
  /\ result = Returned(<<>>)
  /\ html = NoHtml

\* const aiText = improveResume(resume_text, resume_type, target_role || '')
Improve ==
  /\ stage = "input"
  /\ result' = improveResume(resumeText, targetRole)
  /\ stage' = IF result'.threw THEN "threw" ELSE "improved"
  /\ UNCHANGED <<resumeText, targetRole, html>>

\* const html = renderHtmlFromAiText(aiText)
Render ==
  /\ stage = "improved"
  /\ html' = renderHtmlFromAiText(result.value)
  /\ stage' = "rendered"
  /\ UNCHANGED <<resumeText, targetRole, result>>

(* ------------------------------ the server ----------------------------- *)
MaxReq == 2
Req == 1..MaxReq

\* path.join: the segments of both parts, "." dropped and ".." resolved
RECURSIVE Normalize(_, _)
Normalize(acc, rest) ==
  IF rest = <<>> THEN acc
  ELSE IF Head(rest) = "." THEN Normalize(acc, Tail(rest))
  ELSE IF Head(rest) = ".." /\ acc # <<>> /\ acc[Len(acc)] # ".."
       THEN Normalize(SubSeq(acc, 1, Len(acc) - 1), Tail(rest))
  ELSE Normalize(Append(acc, Head(rest)), Tail(rest))
PathJoin(dir, name) == Normalize(<<>>, dir \o name)

ResumesDir == <<"resumes">>
\* `${Date.now()}_${uuidv4()}.pdf`: a name no other request gets
FileName(r) == "artifact_" \o ToString(r) \o ".pdf"
FilePath(r) == PathJoin(ResumesDir, <<FileName(r)>>)

\* What exists under the working directory when the server starts:
\* resumes/ (ensureDir) and the program.
InitialFiles == {ResumesDir, <<"server.js">>}

\* req.params.file, percent-decoded, as path segments
RequestedNames ==
  {<<FileName(r)>> : r \in Req}
  \cup {<<"missing.pdf">>, <<"..", "server.js">>}

\* req.body: resume_text is named by its kind, RequestTexts gives the string
\* (none when the field is missing).
ValidText == <<"J","a","n","e"," ","D","o","e">>
RequestTexts == [missing |-> <<>>, empty |-> <<>>, blank |-> BlankText, valid |-> ValidText]
Bodies ==
  [payment_id : {"", "pay_1"},
   resume_text : {"missing", "empty", "blank", "valid"},
   email : {"", "jane@x.com"}]
NoBody == [payment_id |-> "", resume_text |-> "missing", email |-> ""]

\* j.status of the gateway's reply; "none": a reply without status;
\* "throws": fetch or r.json() rejects
GatewayReplies == {"captured", "authorized", "failed", "none", "throws"}

NoResp == [code |-> 0, error |-> "", downloadUrl |-> ""]
Failure(code, error) == [code |-> code, error |-> error, downloadUrl |-> ""]
Success(url) == [code |-> 200, error |-> "", downloadUrl |-> url]

\* Faulty variant of MissingInput: only the payment_id is checked before the gateway
\* is asked.
MissingInputPaymentOnly(b) == b.payment_id = ""

\* !payment_id || !resume_text
MissingInput(b) ==
  b.payment_id = "" \/ b.resume_text = "missing" \/ Len(RequestTexts[b.resume_text]) = 0

\* Faulty variant of IsVerified: any reply that carries a status counts as verified.
IsVerifiedAnyStatus(reply) == reply \notin {"none", "throws"}

\* j && (j.status === 'captured' || j.status === 'authorized')
IsVerified(reply) == reply \in {"captured", "authorized"}

\* The catch block of /api/generate: the message the caller gets.
PdfFailureMessage == <<"F","a","i","l","e","d"," ","t","o"," ","l","a","u","n","c","h"," ","t","h","e"," ","b","r","o","w","s","e","r"," ","p","r","o","c","e","s","s">>
HostUrlMessage == <<"C","a","n","n","o","t"," ","r","e","a","d"," ","p","r","o","p","e","r","t","i","e","s"," ","o","f"," ","u","n","d","e","f","i","n","e","d"," ","(","r","e","a","d","i","n","g"," ","'","r","e","p","l","a","c","e","'",")">>
UserMessage(message) ==
  IF Includes(message, <<"e","m","p","t","y">>) THEN "Please paste your resume text to proceed."
  ELSE IF Includes(message, <<"P","a","y","m","e","n","t"," ","n","o","t"," ","v","e","r","i","f","i","e","d">>)
       THEN "Payment verification failed. Please try again."
  ELSE "Resume generation failed. Please try again."
Caught(message) == Failure(500, UserMessage(message))

\* No download asked yet; afterwards, the last one: res.download(file) or
\* res.status(404).send('Not found').
NoDownload == [name |-> <<>>, call |-> "", file |-> <<>>]

InitServer ==
  /\ hostUrlSet \in BOOLEAN
  /\ smtpSet \in BOOLEAN
  /\ files = InitialFiles
  /\ pc = [r \in Req |-> "new"]
  /\ body = [r \in Req |-> NoBody]
  /\ status = [r \in Req |-> "unasked"]
  /\ ran = [r \in Req |-> {}]
  /\ mail = [r \in Req |-> "none"]
  /\ resp = [r \in Req |-> NoResp]
  /\ dl = NoDownload

\* POST /api/generate up to the first await: the body is read and checked.
Receive(r) ==
  /\ pc[r] = "new"
  /\ \E b \in Bodies :
       /\ body' = [body EXCEPT ![r] = b]
       /\ IF MissingInput(b)
          THEN /\ resp' = [resp EXCEPT ![r] = Failure(400, "Missing payment_id or resume_text")]
               /\ pc' = [pc EXCEPT ![r] = "done"]
          ELSE /\ resp' = resp
               /\ pc' = [pc EXCEPT ![r] = "verify"]
  /\ UNCHANGED <<hostUrlSet, smtpSet, files, status, ran, mail, dl>>

\* The gateway answers; the handler runs on to the await of htmlToPdfBuffer.
VerifyReturns(r) ==
  /\ pc[r] = "verify"
  /\ \E reply \in GatewayReplies :
       /\ status' = [status EXCEPT ![r] = reply]
       /\ IF ~IsVerified(reply)
          THEN /\ resp' = [resp EXCEPT ![r] = Failure(400, "Payment not verified")]
               /\ pc' = [pc EXCEPT ![r] = "done"]
               /\ ran' = ran
          ELSE LET aiText == improveResume(RequestTexts[body[r].resume_text], <<>>)
               IN  IF aiText.threw
                   THEN /\ resp' = [resp EXCEPT ![r] = Caught(aiText.message)]
                        /\ pc' = [pc EXCEPT ![r] = "done"]
                        /\ ran' = [ran EXCEPT ![r] = {"improve"}]
                   ELSE /\ resp' = resp
                        /\ pc' = [pc EXCEPT ![r] = "pdf"]
                        /\ ran' = [ran EXCEPT ![r] = {"improve", "render", "pdf"}]
  /\ UNCHANGED <<hostUrlSet, smtpSet, files, body, mail, dl>>

\* htmlToPdfBuffer settles; on a buffer the handler writes the file, starts
\* the mail, builds the download URL and answers.
PdfReturns(r) ==
  /\ pc[r] = "pdf"
  /\ pc' = [pc EXCEPT ![r] = "done"]
  /\ \E rendered \in BOOLEAN :
       IF ~rendered
       THEN /\ resp' = [resp EXCEPT ![r] = Caught(PdfFailureMessage)]
            /\ UNCHANGED <<files, ran, mail>>
       ELSE /\ files' = files \cup {FilePath(r)}
            /\ ran' = [ran EXCEPT ![r] = @ \cup {"write"}]
            /\ mail' = [mail EXCEPT ![r] =
                          IF smtpSet /\ body[r].email # "" THEN "pending" ELSE "none"]
            /\ resp' = [resp EXCEPT ![r] =
                          IF hostUrlSet THEN Success("/download/" \o FileName(r))
                          ELSE Caught(HostUrlMessage)]
  /\ UNCHANGED <<hostUrlSet, smtpSet, body, status, dl>>

\* transporter.sendMail(...) settles; a rejection is logged by its catch.
MailSettles(r) ==
  /\ mail[r] = "pending"
  /\ \E delivered \in BOOLEAN :
       mail' = [mail EXCEPT ![r] = IF delivered THEN "sent" ELSE "failed"]
  /\ UNCHANGED <<hostUrlSet, smtpSet, files, pc, body, status, ran, resp, dl>>

\* GET /download/:file
Download(name) ==
  /\ LET file == PathJoin(ResumesDir, name)
     IN  dl' = IF file \in files
               THEN [name |-> name, call |-> "download", file |-> file]
               ELSE [name |-> name, call |-> "404 Not found", file |-> <<>>]
  /\ UNCHANGED <<hostUrlSet, smtpSet, files, pc, body, status, ran, mail, resp>>

InitIdleText ==
  /\ resumeText = <<>>
  /\ targetRole = <<>>
  /\ stage = "input"
  /\ result = Returned(<<>>)
  /\ html = NoHtml

InitIdleServer ==
  /\ hostUrlSet = TRUE
  /\ smtpSet = FALSE
  /\ files = InitialFiles
  /\ pc = [r \in Req |-> "new"]
  /\ body = [r \in Req |-> NoBody]
  /\ status = [r \in Req |-> "unasked"]
  /\ ran = [r \in Req |-> {}]
  /\ mail = [r \in Req |-> "none"]
  /\ resp = [r \in Req |-> NoResp]
  /\ dl = NoDownload

Init == InitServer /\ InitIdleText

\* The steps of the /api/generate handlers.
GenerateNext ==
  \/ \E r \in Req : Receive(r) /\ UNCHANGED textVars
  \/ \E r \in Req : VerifyReturns(r) /\ UNCHANGED textVars
  \/ \E r \in Req : PdfReturns(r) /\ UNCHANGED textVars
  \/ \E r \in Req : MailSettles(r) /\ UNCHANGED textVars
GenerateSpec == Init /\ [][GenerateNext]_vars

\* The server: generate requests and downloads.
Next ==
  \/ GenerateNext
  \/ \E name \in RequestedNames : Download(name) /\ UNCHANGED textVars
Spec == Init /\ [][Next]_vars

TextInit == InitText /\ InitIdleServer
TextNext ==
  \/ Improve /\ UNCHANGED serverVars
  \/ Render /\ UNCHANGED serverVars
TextSpec == TextInit /\ [][TextNext]_vars

(* ------------------------- claims: /api/generate ----------------------- *)
Artifact(r) == FilePath(r) \in files

\* C1: resume extraction, markup rendering, PDF rendering and the write of
\* the artifact happen for a request only after its payment verification
\* returned 'captured' or 'authorized'; after any other reply, no reply
\* status or a throw, none of them runs and no artifact is written.
C1_PipelineOnlyAfterVerification ==
  \A r \in Req :
    (ran[r] # {} \/ Artifact(r)) => status[r] \in {"captured", "authorized"}

C1_Witness ==
  \E r \in Req :
    /\ status[r] = "authorized"
    /\ ran[r] = {"improve", "render", "pdf", "write"}
    /\ Artifact(r)

\* C2, as claimed: a request with a payment_id that is not verified is
\* answered 'Payment not verified' whatever its resume_text is (missing,
\* empty, whitespace-only or well-formed).
C2_UnverifiedWhateverText ==
  \A r \in Req :
    (pc[r] = "done" /\ body[r].payment_id # ""
       /\ status[r] \notin {"captured", "authorized"})
    => resp[r] = Failure(400, "Payment not verified")

\* C2, amended: with a payment_id that is not verified, a resume_text that is
\* present and not the empty string (whitespace-only or well-formed) is
\* answered 'Payment not verified'; a missing or empty resume_text is
\* answered 'Missing payment_id or resume_text' and the payment is never
\* asked about.
C2_UnverifiedByText ==
  \A r \in Req :
    (pc[r] = "done" /\ body[r].payment_id # ""
       /\ status[r] \notin {"captured", "authorized"})
    => IF body[r].resume_text \in {"blank", "valid"}
       THEN resp[r] = Failure(400, "Payment not verified")
       ELSE /\ resp[r] = Failure(400, "Missing payment_id or resume_text")
            /\ status[r] = "unasked"

C2_Witness ==
  \E r \in Req :
    /\ pc[r] = "done"
    /\ body[r].payment_id # ""
    /\ body[r].resume_text = "blank"
    /\ status[r] = "failed"
    /\ resp[r] = Failure(400, "Payment not verified")

\* C9: once the artifact is written the caller gets the success response
\* with the download reference, whether the mail is delivered, fails or is
\* still pending (or was never started).
C9_SuccessWhateverMail ==
  \A r \in Req :
    (Artifact(r) /\ mail[r] \in {"none", "pending", "sent", "failed"})
    => resp[r] = Success("/download/" \o FileName(r))

\* C10: a request answered with a failure (4xx or 5xx) has written no
\* artifact and started no mail; an artifact exists only for a request
\* answered with success and a download reference.
C10_FailureLeavesNothing ==
  \A r \in Req :
    /\ resp[r].code \in {400, 500} => (~Artifact(r) /\ mail[r] = "none")
    /\ Artifact(r) => (resp[r].code = 200 /\ resp[r].downloadUrl # "")

(* --------------------------- claims: /download ------------------------- *)
\* C3: a download is served only for a name that is exactly the file name
\* of an artifact a generate request wrote; every other name, also one
\* that resolves outside the resumes store, gets 404 'Not found'.
C3_DownloadOnlyArtifacts ==
  /\ dl.call = "download" => \E r \in Req : dl.name = <<FileName(r)>> /\ Artifact(r)
  /\ (dl.call # "" /\ \A r \in Req : dl.name # <<FileName(r)>>) => dl.call = "404 Not found"

(* ------------------------ claims: the text pipeline -------------------- *)
Improved == stage \in {"improved", "rendered"}
Fields == ExtractFields(resumeText, targetRole)

\* C4: each section renderHtmlFromAiText re-extracts equals exactly the
\* content improveResume wrote under the label, for every combination of
\* present and absent optional sections.
C4_RoundTripExact ==
  stage = "rendered" =>
    /\ html.h1 = (IF Len(Fields.name) > 0 THEN Fields.name ELSE Applicant)
    /\ html.contact = Fields.contact
    /\ html.summary = Fields.summary
    /\ html.skills = Fields.skills
    /\ html.experience = Fields.experience
    /\ html.education = Fields.education

\* C5: when all six extracted values are non-empty, each is a contiguous
\* substring of its block of the markup.
AllSix ==
  /\ Len(Fields.name) > 0 /\ Len(Fields.contact) > 0 /\ Len(Fields.summary) > 0
  /\ Len(Fields.skills) > 0 /\ Len(Fields.experience) > 0 /\ Len(Fields.education) > 0

C5_SixValuesInBlocks ==
  (stage = "rendered" /\ AllSix) =>
    /\ Includes(html.title, Fields.name)
    /\ Includes(html.h1, Fields.name)
    /\ Includes(html.contact, Fields.contact)
    /\ Includes(html.summary, Fields.summary)
    /\ Includes(html.skills, Fields.skills)
    /\ Includes(html.experience, Fields.experience)
    /\ Includes(html.education, Fields.education)

\* The value on the NAME line of a built resume.
NameLine(aiText) ==
  SubSeq(aiText, 7, MinOf({i \in 1..Len(aiText) : aiText[i] = "\n"}) - 1)

\* C6: improveResume throws 'Resume text cannot be empty' for an empty or
\* whitespace-only text; for every other text it returns a resume whose NAME
\* line is never empty, and is 'Applicant' when no name is matched or the
\* matched name trims to the empty string.
C6_EmptyTextOrNamedResume ==
  stage # "input" =>
    IF \A i \in 1..Len(resumeText) : resumeText[i] \in WsSet
    THEN stage = "threw" /\ result = Threw(EmptyTextMessage)
    ELSE /\ Improved
         /\ ~result.threw
         /\ StartsWith(result.value, <<"N","A","M","E",":"," ">>)
         /\ NameLine(result.value) # <<>>
         /\ (~NameRegex(resumeText).found \/ Trim(NameRegex(resumeText).cap) = <<>>)
              => NameLine(result.value) = Applicant

C6_Witness ==
  /\ stage = "improved"
  /\ NameRegex(resumeText).found
  /\ Trim(NameRegex(resumeText).cap) = <<>>
  /\ NameLine(result.value) = Applicant

\* The skills as C7 states them: the text after the first 'Skills' label, up
\* to the line break before the next section label or else to the end of
\* the text.
ClaimedSkills(s) ==
  LET label == <<"S","k","i","l","l","s">>
      stops == {<<"E","x","p","e","r","i","e","n","c","e">>, <<"E","d","u","c","a","t","i","o","n">>, <<"L","a","n","g","u","a","g","e","s">>, <<"O","b","j","e","c","t","i","v","e">>}
      starts == {p \in 1..Len(s) : WordAtCI(s, p, label)}
      base == MinOf(starts) + Len(label)
      next == {q \in base..Len(s) : s[q] = "\n" /\ \E w \in stops : WordAtCI(s, q + 1, w)}
      to == IF next = {} THEN Len(s) ELSE MinOf(next) - 1
      from == base + RunLen(s, base, WsColonSet)
      raw == IF starts = {} THEN <<>> ELSE SubSeq(s, from, to)
  IN  Join(Slice0(FilterNonEmpty(MapTrim(SplitList(raw))), 12), BulletSep)

\* C7: the skills are built from the text after the 'Skills' label up to
\* the next recognized section label or, when none follows, the end of the
\* text, whether or not the text ends with a line break.
C7_SkillsToLabelOrEnd ==
  Improved => Fields.skills = ClaimedSkills(resumeText)

\* The name as C8 states it: the name pattern with its label in any case.
ClaimedName(s) ==
  LET caps(p) == {j \in 0..RunLen(s, p + 4, WsColonSet) : NameCapEnd(s, p + 4 + j) # 0}
      starts == {p \in 1..Len(s) : WordAtCI(s, p, <<"N","a","m","e">>) /\ caps(p) # {}}
  IN  IF starts = {} THEN Applicant
      ELSE LET c == MinOf(starts) + 4 + MaxOf(caps(MinOf(starts)))
           IN  Trim(SubSeq(s, c, NameCapEnd(s, c)))

\* C8: the name is the first match after a 'Name' label in any letter case,
\* and only a text without such a label yields 'Applicant'.
C8_NameLabelAnyCase ==
  Improved =>
    /\ Fields.name = ClaimedName(resumeText)
    /\ Fields.name = Applicant =>
         ~\E p \in 1..Len(resumeText) : WordAtCI(resumeText, p, <<"N","a","m","e">>)
====
